---------------------------- MODULE Spec2Model ----------------------------
(***************************************************************************)
(* A model of security_monitor.py: the SecurityMonitor object (is_running, *)
(* camera, monitor_thread), the external caller of start() and stop(), and *)
(* the loop threads running _monitor_loop, each with its own locals; the    *)
(* module's start_security_monitoring and stop_security_monitoring with    *)
(* their global; and, as a specification of its own, the detection of      *)
(* lines 131-146 applied to a frame delta under several sensitivities.     *)
(*                                                                         *)
(* A gray frame is the blurred grayscale image the detection consumes      *)
(* (lines 105-106 and 126-127), here a small grid of intensities.  The     *)
(* clock `now` is what time.time() returns, in whole seconds.              *)
(***************************************************************************)
EXTENDS Integers, Sequences, FiniteSets, TLC

\* ----- bounds of the model
MaxThreads == 2      \* loop threads start() may create in one behaviour
StartNow == 29       \* the clock's value when the monitor is constructed
MaxTicks == 3        \* seconds the clock may advance
GridH == 3           \* rows of a frame
GridW == 7           \* columns of a frame

\* ----- program constants
RefreshPeriod == 30  \* time.time() % 30
DilateIterations == 2

\* Python's None, for fields that otherwise hold a thread, a sink or a time
None == 0
Threads == 1..MaxThreads
Pixels == (1..GridH) \X (1..GridW)

VARIABLES
    \* configuration, fixed by __init__
    sensitivity, min_area, record_seconds,
    \* the environment: the scenes in front of the camera, the number of
    \* times the caller gets start() to launch a loop, the last second the
    \* clock reaches, and the control surface the caller uses: the methods
    \* of a monitor it constructed, or the module's two functions
    scene, launches, horizon, surface,
    \* the module's global, line 316
    security_monitor_instance,
    \* the detection on its own: a frame delta, and the motion regions found
    \* in it under each sensitivity tried so far
    frame_delta, regions,
    \* fields of the SecurityMonitor object
    is_running, camera, monitor_thread,
    \* the external caller of start() and stop()
    cpc, lastResult, startResult, nthreads,
    \* the VideoCapture object each loop thread created
    camState,
    \* wall clock
    now,
    \* position and locals of each loop thread
    pc, is_recording, video_writer, record_start_time,
    gray_first_frame, gray_frame, motion_detected,
    \* effects on the collaborators, per loop thread
    sinks, screenshots, notified, appended, seen,
    \* whether a read of the loop thread has returned no frame (first_frame
    \* of line 104, ret of line 120), until line 202
    failed_read,
    \* how the screenshot write and the notification of the current
    \* iteration ended: "none" when there was none, "ok" or "failed"
    shot, sent

config == <<sensitivity, min_area, record_seconds, scene, launches, horizon,
            surface>>
globals == <<security_monitor_instance>>
bench == <<frame_delta, regions>>
object == <<is_running, camera, monitor_thread>>
caller == <<cpc, lastResult, startResult, nthreads>>
locals == <<is_recording, video_writer, record_start_time,
            gray_first_frame, gray_frame, motion_detected>>
effects == <<sinks, screenshots, notified, appended, seen, failed_read,
             shot, sent>>
vars == <<config, globals, bench, object, caller, camState, now, pc, locals,
          effects>>

\* ----- frames
Abs(x) == IF x < 0 THEN -x ELSE x

\* The scenes the camera can deliver, by name, and the gray frame of each:
\*   Dark   nothing in view
\*   Dim    a change in the middle that does not exceed the default sensitivity
\*   Speck  one changed pixel in the corner: dilates to a 3-column region
\*   Blob   one changed pixel in the middle: dilates to a 5-column region
Frames == {"Dark", "Dim", "Speck", "Blob"}

Image(f) ==
    [p \in Pixels |->
        CASE f = "Dim" /\ p = <<1, 4>> -> 20
          [] f = "Speck" /\ p = <<1, 1>> -> 25
          [] f = "Blob" /\ p = <<1, 4>> -> 25
          [] OTHER -> 0]

\* ----- the detection pipeline, lines 130-146
AbsDiff(a, b) == [p \in Pixels |-> Abs(a[p] - b[p])]

\* THRESH_BINARY: a pixel is set when its value is strictly above thresh
Threshold(delta, thresh) == {p \in Pixels : delta[p] > thresh}

Near(p, q) == Abs(p[1] - q[1]) <= 1 /\ Abs(p[2] - q[2]) <= 1

\* one pass of the default 3x3 structuring element
Dilate1(mask) == {p \in Pixels : \E q \in mask : Near(p, q)}

RECURSIVE DilateN(_, _)
DilateN(mask, n) == IF n = 0 THEN mask ELSE DilateN(Dilate1(mask), n - 1)

Dilate(mask) == DilateN(mask, DilateIterations)

RECURSIVE Grow(_, _)
Grow(S, mask) ==
    LET S2 == S \cup {p \in mask : \E q \in S : Near(p, q)}
    IN  IF S2 = S THEN S ELSE Grow(S2, mask)

\* RETR_EXTERNAL: one contour per 8-connected region of the mask
RECURSIVE Contours(_)
Contours(mask) ==
    IF mask = {} THEN {}
    ELSE LET C == Grow({CHOOSE p \in mask : TRUE}, mask)
         IN  {C} \cup Contours(mask \ C)

\* Twice cv2.contourArea of a region's outer border: the border runs through
\* pixel centres, so a cell between four pixels of the region counts whole
\* and a cell with three of its corners in the region counts half.
Corners(r, c) == {<<r, c>>, <<r + 1, c>>, <<r, c + 1>>, <<r + 1, c + 1>>}
Cells == (1..(GridH - 1)) \X (1..(GridW - 1))
ContourArea2(C) ==
    2 * Cardinality({k \in Cells : Corners(k[1], k[2]) \subseteq C})
      + Cardinality({k \in Cells : Cardinality(Corners(k[1], k[2]) \cap C) = 3})

\* line 141 with its comparison turned round
SkippedWhenLarge(C, minArea) == ContourArea2(C) > 2 * minArea

\* line 141: a contour is skipped when its area is below min_area
Skipped(C, minArea) == ContourArea2(C) < 2 * minArea

\* lines 131-146 on a frame delta: the contours that are not skipped
DeltaRegions(delta, thresh, minArea) ==
    {C \in Contours(Dilate(Threshold(delta, thresh))) : ~Skipped(C, minArea)}

MotionRegions(ref, frame, thresh, minArea) ==
    DeltaRegions(AbsDiff(ref, frame), thresh, minArea)

MotionDetected(ref, frame, thresh, minArea) ==
    MotionRegions(ref, frame, thresh, minArea) # {}

\* what a processed frame showed, for the record kept in `seen`
\*   "still"   no pixel differs from the reference by more than thresh
\*   "submin"  some pixel does, and no contour reaches minArea
\*   "motion"  some pixel does, and a contour reaches minArea
Level(ref, frame, thresh, minArea) ==
    IF Threshold(AbsDiff(ref, frame), thresh) = {} THEN "still"
    ELSE IF MotionDetected(ref, frame, thresh, minArea) THEN "motion"
    ELSE "submin"

Worse(a, b) ==
    IF "motion" \in {a, b} THEN "motion"
    ELSE IF "submin" \in {a, b} THEN "submin" ELSE "still"

\* ----- construction: SecurityMonitor.__init__, lines 44-57
\* The constructor's arguments: sensitivity at its default; min_area and
\* record_seconds on the scale of the grid and of the clock's horizon.
SensitivitySet == {20}
MinAreaSet == {5, 9}
RecordSecondsSet == {0, 1, 2}

\* the detection's outcome on every pair of frames the camera can deliver,
\* computed once: <<configuration and frames, motion_detected, level>>
DetectTable ==
    {<<x, MotionDetected(Image(x[3]), Image(x[4]), x[1], x[2]),
          Level(Image(x[3]), Image(x[4]), x[1], x[2])>> :
        x \in SensitivitySet \X MinAreaSet \X Frames \X Frames}

\* A monitor launched once watches any of the scenes while the clock runs.
\* One the caller stops and launches again watches the quiet scene, where
\* no session starts and the reference frame never differs, so that nothing
\* depends on the clock: it is left standing.
\* A caller of the module's functions gets one monitor, the one that
\* start_security_monitoring constructs, in front of the quiet scene.
\* Each setup is
\* <<scene, launches, horizon, min_area, record_seconds, surface>>.
Setups ==
    {<<Frames, 1, StartNow + MaxTicks, a, r, "methods">> :
        a \in MinAreaSet, r \in RecordSecondsSet}
    \cup {<<{"Dark"}, n, StartNow, 5, 1, "methods">> : n \in 2..MaxThreads}
    \cup {<<{"Dark"}, 1, StartNow, 5, 1, "module">>}

\* lines 55-57 and 316, and the loop threads not yet created
Constructed ==
    /\ security_monitor_instance = None
    /\ is_running = FALSE
    /\ camera = None
    /\ monitor_thread = None
    /\ cpc = "idle"
    /\ lastResult = "none"
    /\ startResult = [t \in Threads |-> "none"]
    /\ nthreads = 0
    /\ camState = [t \in Threads |-> "none"]
    /\ now = StartNow
    /\ pc = [t \in Threads |-> "unborn"]
    /\ is_recording = [t \in Threads |-> FALSE]
    /\ video_writer = [t \in Threads |-> None]
    /\ record_start_time = [t \in Threads |-> None]
    /\ gray_first_frame = [t \in Threads |-> "none"]
    /\ gray_frame = [t \in Threads |-> "none"]
    /\ motion_detected = [t \in Threads |-> FALSE]
    /\ sinks = [t \in Threads |-> <<>>]
    /\ screenshots = [t \in Threads |-> 0]
    /\ notified = [t \in Threads |-> 0]
    /\ appended = [t \in Threads |-> 0]
    /\ seen = [t \in Threads |-> "still"]
    /\ failed_read = [t \in Threads |-> FALSE]
    /\ shot = [t \in Threads |-> "none"]
    /\ sent = [t \in Threads |-> "none"]

\* no frame delta under study
NoDelta == [p \in Pixels |-> 0]
NoRegions == [s \in {} |-> {}]

Init ==
    /\ \E e \in Setups :
           /\ scene = e[1] /\ launches = e[2] /\ horizon = e[3]
           /\ min_area = e[4] /\ record_seconds = e[5] /\ surface = e[6]
    /\ sensitivity \in SensitivitySet
    /\ Constructed
    /\ frame_delta = NoDelta
    /\ regions = NoRegions

\* ----- the clock
Tick ==
    /\ now < horizon
    /\ now' = now + 1
    /\ UNCHANGED <<config, globals, bench, object, caller, camState, pc,
                   locals, effects>>

\* ----- the external caller
\* The caller enters start() or stop() of its monitor; start() is entered
\* only while the model still has a loop thread to give it.  lastResult is
\* the message the last completed call returned, "none" while a call is in
\* progress.
InvokeStart ==
    /\ surface = "methods"
    /\ cpc = "idle"
    /\ nthreads < launches
    /\ cpc' = "start"
    /\ lastResult' = "none"
    /\ UNCHANGED <<config, globals, bench, object, startResult, nthreads,
                   camState, now, pc, locals, effects>>

InvokeStop ==
    /\ surface = "methods"
    /\ cpc = "idle"
    /\ cpc' = "stop"
    /\ lastResult' = "none"
    /\ UNCHANGED <<config, globals, bench, object, startResult, nthreads,
                   camState, now, pc, locals, effects>>

\* lines 276-295: start_security_monitoring constructs a monitor in a local
\* variable and enters its start(); nothing is assigned to the global.
StartSecurityMonitoring ==
    /\ surface = "module"
    /\ cpc = "idle"
    /\ nthreads < launches
    /\ cpc' = "start"
    /\ lastResult' = "none"
    /\ UNCHANGED <<config, globals, bench, object, startResult, nthreads,
                   camState, now, pc, locals, effects>>

\* lines 298-313: stop_security_monitoring enters stop() of the monitor the
\* global holds and clears the global (line 310), or answers that
\* monitoring was not started when the global holds none.
StopSecurityMonitoring ==
    /\ surface = "module"
    /\ cpc = "idle"
    /\ IF security_monitor_instance # None
       THEN /\ cpc' = "stop"
            /\ lastResult' = "none"
            /\ security_monitor_instance' = None
       ELSE /\ lastResult' = "was not started"
            /\ UNCHANGED <<cpc, security_monitor_instance>>
    /\ UNCHANGED <<config, bench, object, startResult, nthreads,
                   camState, now, pc, locals, effects>>

\* start() without its guard
AlreadyRunningIgnored == FALSE

\* line 67
AlreadyRunning == is_running

\* lines 67-71
Start ==
    /\ cpc = "start"
    /\ IF AlreadyRunning
       THEN /\ lastResult' = "already running"
            /\ cpc' = "idle"
            /\ UNCHANGED is_running
       ELSE /\ is_running' = TRUE
            /\ cpc' = "start_thread"
            /\ UNCHANGED lastResult
    /\ UNCHANGED <<config, globals, bench, camera, monitor_thread, startResult,
                   nthreads, camState, now, pc, locals, effects>>

\* lines 72-74
StartThread ==
    /\ cpc = "start_thread"
    /\ nthreads' = nthreads + 1
    /\ monitor_thread' = nthreads + 1
    /\ pc' = [pc EXCEPT ![nthreads + 1] = "open"]
    /\ cpc' = "start_return"
    /\ UNCHANGED <<config, globals, bench, is_running, camera, lastResult,
                   startResult, camState, now, locals, effects>>

\* lines 76-77
StartReturn ==
    /\ cpc = "start_return"
    /\ lastResult' = "started"
    /\ startResult' = [startResult EXCEPT ![monitor_thread] = "started"]
    /\ cpc' = "idle"
    /\ UNCHANGED <<config, globals, bench, object, nthreads, camState, now, pc,
                   locals, effects>>

\* stop() without its guard
NotRunningIgnored == FALSE

\* line 81
NotRunning == ~is_running

\* lines 81-85
Stop ==
    /\ cpc = "stop"
    /\ IF NotRunning
       THEN /\ lastResult' = "not running"
            /\ cpc' = "idle"
            /\ UNCHANGED is_running
       ELSE /\ is_running' = FALSE
            /\ cpc' = "stop_check"
            /\ UNCHANGED lastResult
    /\ UNCHANGED <<config, globals, bench, camera, monitor_thread, startResult,
                   nthreads, camState, now, pc, locals, effects>>

\* line 86
StopCheck ==
    /\ cpc = "stop_check"
    /\ cpc' = IF camera # None THEN "stop_release" ELSE "stop_return"
    /\ UNCHANGED <<config, globals, bench, object, lastResult, startResult,
                   nthreads, camState, now, pc, locals, effects>>

\* VideoCapture.release(): an opened capture becomes released
Release(cs, c) == IF cs[c] = "open" THEN [cs EXCEPT ![c] = "released"] ELSE cs

\* line 87
StopRelease ==
    /\ cpc = "stop_release"
    /\ camState' = Release(camState, camera)
    /\ cpc' = "stop_none"
    /\ UNCHANGED <<config, globals, bench, object, lastResult, startResult,
                   nthreads, now, pc, locals, effects>>

\* line 88
StopNone ==
    /\ cpc = "stop_none"
    /\ camera' = None
    /\ cpc' = "stop_return"
    /\ UNCHANGED <<config, globals, bench, is_running, monitor_thread,
                   lastResult, startResult, nthreads, camState, now, pc,
                   locals, effects>>

\* lines 90-91
StopReturn ==
    /\ cpc = "stop_return"
    /\ lastResult' = "stopped"
    /\ cpc' = "idle"
    /\ UNCHANGED <<config, globals, bench, object, startResult, nthreads,
                   camState, now, pc, locals, effects>>

\* ----- a loop thread: _monitor_loop, lines 93-204
\* an exception inside the try block: the except clause logs it (lines
\* 198-199) and the finally clause runs
Raise(t) == pc' = [pc EXCEPT ![t] = "finally"]

\* line 97: cv2.VideoCapture(camera_id); the device opens or does not
Open(t) ==
    /\ pc[t] = "open"
    /\ camera' = t
    /\ \E opened \in {"open", "failed"} :
           camState' = [camState EXCEPT ![t] = opened]
    /\ pc' = [pc EXCEPT ![t] = "is_opened"]
    /\ UNCHANGED <<config, globals, bench, is_running, monitor_thread, caller,
                   now, locals, effects>>

\* lines 98-101: self.camera.isOpened(), on whatever self.camera now holds
IsOpened(t) ==
    /\ pc[t] = "is_opened"
    /\ IF camera = None
       THEN Raise(t) /\ UNCHANGED is_running
       ELSE IF camState[camera] # "open"
       THEN /\ is_running' = FALSE
            /\ pc' = [pc EXCEPT ![t] = "finally"]
       ELSE /\ pc' = [pc EXCEPT ![t] = "first_read"]
            /\ UNCHANGED <<is_running>>
    /\ UNCHANGED <<config, globals, bench, camera, monitor_thread, caller,
                   camState, now, locals, effects>>

\* lines 104-116: the reference frame and the loop's locals.  A failed read
\* returns no frame and cvtColor raises on it; self.camera.read and
\* self.camera.get raise when stop() has set camera to None.
FirstRead(t) ==
    /\ pc[t] = "first_read"
    /\ \/ /\ camera # None
          /\ camState[camera] = "open"
          /\ \E f \in scene :
                 gray_first_frame' = [gray_first_frame EXCEPT ![t] = f]
          /\ is_recording' = [is_recording EXCEPT ![t] = FALSE]
          /\ video_writer' = [video_writer EXCEPT ![t] = None]
          /\ record_start_time' = [record_start_time EXCEPT ![t] = None]
          /\ pc' = [pc EXCEPT ![t] = "while"]
          /\ UNCHANGED <<gray_frame, motion_detected, failed_read>>
       \/ /\ camera # None
          /\ failed_read' = [failed_read EXCEPT ![t] = TRUE]
          /\ Raise(t)
          /\ UNCHANGED locals
       \/ /\ Raise(t)
          /\ UNCHANGED <<locals, failed_read>>
    /\ UNCHANGED <<config, globals, bench, object, caller, camState, now,
                   sinks, screenshots, notified, appended, seen, shot, sent>>

\* a loop that does not look at the run-flag
KeepsRunningAlways == TRUE

\* line 118
KeepsRunning == is_running

While(t) ==
    /\ pc[t] = "while"
    /\ pc' = [pc EXCEPT ![t] = IF KeepsRunning THEN "read" ELSE "release_writer"]
    /\ UNCHANGED <<config, globals, bench, object, caller, camState, now,
                   locals, effects>>

\* lines 130-146 under the monitor's configuration
Detect(ref, frame) ==
    CHOOSE r \in DetectTable : r[1] = <<sensitivity, min_area, ref, frame>>

\* lines 120-146: read a frame from self.camera and look for motion in it
Read(t) ==
    /\ pc[t] = "read"
    /\ \/ /\ camera = None
          /\ Raise(t)
          /\ UNCHANGED <<gray_frame, motion_detected, appended, seen,
                         failed_read>>
       \/ /\ camera # None
          /\ failed_read' = [failed_read EXCEPT ![t] = TRUE]
          /\ pc' = [pc EXCEPT ![t] = "release_writer"]
          /\ UNCHANGED <<gray_frame, motion_detected, appended, seen>>
       \/ /\ camera # None
          /\ camState[camera] = "open"
          /\ \E f \in scene :
               /\ gray_frame' = [gray_frame EXCEPT ![t] = f]
               /\ motion_detected' = [motion_detected EXCEPT ![t] =
                      Detect(gray_first_frame[t], f)[2]]
               /\ seen' = [seen EXCEPT ![t] =
                      Worse(seen[t], Detect(gray_first_frame[t], f)[3])]
          /\ appended' = [appended EXCEPT ![t] = 0]
          /\ pc' = [pc EXCEPT ![t] = "trigger"]
          /\ UNCHANGED failed_read
    /\ UNCHANGED <<config, globals, bench, object, caller, camState, now,
                   is_recording, video_writer, record_start_time,
                   gray_first_frame, sinks, screenshots, notified, shot, sent>>

\* a session started on every frame with motion
StartsSessionOnMotion(motion, recording) == motion

\* a session started whenever none is active
StartsSessionWhenIdle(motion, recording) == ~recording

\* line 149
StartsSession(motion, recording) == motion /\ ~recording

\* the notification sent after the if block: once per frame with motion
TriggerRenotifies(t) ==
    /\ pc[t] = "trigger"
    /\ IF StartsSession(motion_detected[t], is_recording[t])
       THEN /\ sinks' = [sinks EXCEPT ![t] = Append(@, "open")]
            /\ video_writer' = [video_writer EXCEPT ![t] = Len(sinks[t]) + 1]
            /\ is_recording' = [is_recording EXCEPT ![t] = TRUE]
            /\ record_start_time' = [record_start_time EXCEPT ![t] = now]
            /\ screenshots' = [screenshots EXCEPT ![t] = @ + 1]
            /\ \E w \in {"ok", "failed"} : shot' = [shot EXCEPT ![t] = w]
       ELSE UNCHANGED <<sinks, video_writer, is_recording, record_start_time,
                        screenshots, shot>>
    /\ notified' = [notified EXCEPT ![t] =
                        IF motion_detected[t] THEN @ + 1 ELSE @]
    /\ IF motion_detected[t]
       THEN \E d \in {"ok", "failed"} : sent' = [sent EXCEPT ![t] = d]
       ELSE UNCHANGED sent
    /\ pc' = [pc EXCEPT ![t] = "record"]
    /\ UNCHANGED <<config, globals, bench, object, caller, camState, now,
                   gray_first_frame, gray_frame, motion_detected, appended,
                   seen, failed_read>>

\* a failed send that raises out of _send_notification into the loop
AfterNotificationRaising(written, delivered) ==
    IF delivered = "failed" THEN "finally" ELSE "record"

\* lines 158 and 206-216: cv2.imwrite answers False when it cannot write and
\* _send_notification catches every exception of the send, so control goes
\* on to line 166 however the two ended
AfterNotification(written, delivered) == "record"

\* lines 149-163: open a sink, write the screenshot, send the notification.
\* The write and the send each succeed or fail.
Trigger(t) ==
    /\ pc[t] = "trigger"
    /\ IF StartsSession(motion_detected[t], is_recording[t])
       THEN /\ sinks' = [sinks EXCEPT ![t] = Append(@, "open")]
            /\ video_writer' = [video_writer EXCEPT ![t] = Len(sinks[t]) + 1]
            /\ is_recording' = [is_recording EXCEPT ![t] = TRUE]
            /\ record_start_time' = [record_start_time EXCEPT ![t] = now]
            /\ screenshots' = [screenshots EXCEPT ![t] = @ + 1]
            /\ notified' = [notified EXCEPT ![t] = @ + 1]
            /\ \E w \in {"ok", "failed"}, d \in {"ok", "failed"} :
                   /\ shot' = [shot EXCEPT ![t] = w]
                   /\ sent' = [sent EXCEPT ![t] = d]
                   /\ pc' = [pc EXCEPT ![t] = AfterNotification(w, d)]
       ELSE /\ pc' = [pc EXCEPT ![t] = "record"]
            /\ UNCHANGED <<sinks, video_writer, is_recording,
                           record_start_time, screenshots, notified,
                           shot, sent>>
    /\ UNCHANGED <<config, globals, bench, object, caller, camState, now,
                   gray_first_frame, gray_frame, motion_detected, appended,
                   seen, failed_read>>

\* the duration test with >= for >
ExpiredAtEquality(time, start, seconds) == time - start >= seconds

\* line 170
Expired(time, start, seconds) == time - start > seconds

\* the duration tested before the write: the frame on which the session
\* expires is not appended
RecordSkipsExpiringFrame(t) ==
    /\ pc[t] = "record"
    /\ IF is_recording[t]
       THEN IF Expired(now, record_start_time[t], record_seconds)
            THEN /\ sinks' = [sinks EXCEPT ![t][video_writer[t]] = "released"]
                 /\ video_writer' = [video_writer EXCEPT ![t] = None]
                 /\ is_recording' = [is_recording EXCEPT ![t] = FALSE]
                 /\ UNCHANGED appended
            ELSE /\ appended' = [appended EXCEPT ![t] = @ + 1]
                 /\ UNCHANGED <<sinks, video_writer, is_recording>>
       ELSE UNCHANGED <<appended, sinks, video_writer, is_recording>>
    /\ pc' = [pc EXCEPT ![t] = "refresh"]
    /\ UNCHANGED <<config, globals, bench, object, caller, camState, now,
                   record_start_time, gray_first_frame, gray_frame,
                   motion_detected, screenshots, notified, seen, failed_read,
                   shot, sent>>

\* lines 166-174: append the frame and close the session when its time is up
Record(t) ==
    /\ pc[t] = "record"
    /\ IF is_recording[t]
       THEN /\ appended' = [appended EXCEPT ![t] = @ + 1]
            /\ IF Expired(now, record_start_time[t], record_seconds)
               THEN /\ sinks' = [sinks EXCEPT ![t][video_writer[t]] = "released"]
                    /\ video_writer' = [video_writer EXCEPT ![t] = None]
                    /\ is_recording' = [is_recording EXCEPT ![t] = FALSE]
               ELSE UNCHANGED <<sinks, video_writer, is_recording>>
       ELSE UNCHANGED <<appended, sinks, video_writer, is_recording>>
    /\ pc' = [pc EXCEPT ![t] = "refresh"]
    /\ UNCHANGED <<config, globals, bench, object, caller, camState, now,
                   record_start_time, gray_first_frame, gray_frame,
                   motion_detected, screenshots, notified, seen, failed_read,
                   shot, sent>>

\* a refresh window of two seconds
RefreshDueTwoSeconds(time) == time % RefreshPeriod < 2

\* line 177
RefreshDue(time) == time % RefreshPeriod < 1

\* lines 177-178
Refresh(t) ==
    /\ pc[t] = "refresh"
    /\ gray_first_frame' = [gray_first_frame EXCEPT ![t] =
           IF RefreshDue(now) THEN gray_frame[t] ELSE @]
    /\ pc' = [pc EXCEPT ![t] = "overlay"]
    /\ UNCHANGED <<config, globals, bench, object, caller, camState, now,
                   is_recording, video_writer, record_start_time, gray_frame,
                   motion_detected, effects>>

\* lines 181-192: the timestamp overlay and the sleep, the end of an
\* iteration.  frame, gray_frame and motion_detected are not read again
\* before lines 120-137 reassign them, so the model forgets them here,
\* with the iteration's count of appended frames and its I/O outcomes.
Overlay(t) ==
    /\ pc[t] = "overlay"
    /\ gray_frame' = [gray_frame EXCEPT ![t] = "none"]
    /\ motion_detected' = [motion_detected EXCEPT ![t] = FALSE]
    /\ appended' = [appended EXCEPT ![t] = 0]
    /\ shot' = [shot EXCEPT ![t] = "none"]
    /\ sent' = [sent EXCEPT ![t] = "none"]
    /\ pc' = [pc EXCEPT ![t] = "while"]
    /\ UNCHANGED <<config, globals, bench, object, caller, camState, now,
                   is_recording, video_writer, record_start_time,
                   gray_first_frame, sinks, screenshots, notified, seen,
                   failed_read>>

\* lines 195-196: after the loop, release a sink still held
ReleaseWriter(t) ==
    /\ pc[t] = "release_writer"
    /\ sinks' = IF video_writer[t] # None
                THEN [sinks EXCEPT ![t][video_writer[t]] = "released"]
                ELSE sinks
    /\ pc' = [pc EXCEPT ![t] = "finally"]
    /\ UNCHANGED <<config, globals, bench, object, caller, camState, now,
                   locals, screenshots, notified, appended, seen, failed_read,
                   shot, sent>>

\* lines 201-202
FinallyCamera(t) ==
    /\ pc[t] = "finally"
    /\ camState' = IF camera # None THEN Release(camState, camera) ELSE camState
    /\ pc' = [pc EXCEPT ![t] = "finally_flag"]
    /\ failed_read' = [failed_read EXCEPT ![t] = FALSE]
    /\ UNCHANGED <<config, globals, bench, object, caller, now, locals,
                   sinks, screenshots, notified, appended, seen, shot, sent>>

\* line 204, and the return: the thread's locals are gone
FinallyFlag(t) ==
    /\ pc[t] = "finally_flag"
    /\ is_running' = FALSE
    /\ pc' = [pc EXCEPT ![t] = "done"]
    /\ is_recording' = [is_recording EXCEPT ![t] = FALSE]
    /\ video_writer' = [video_writer EXCEPT ![t] = None]
    /\ record_start_time' = [record_start_time EXCEPT ![t] = None]
    /\ gray_first_frame' = [gray_first_frame EXCEPT ![t] = "none"]
    /\ gray_frame' = [gray_frame EXCEPT ![t] = "none"]
    /\ motion_detected' = [motion_detected EXCEPT ![t] = FALSE]
    /\ UNCHANGED <<config, globals, bench, camera, monitor_thread, caller,
                   camState, now, effects>>

ThreadStep(t) ==
    \/ Open(t) \/ IsOpened(t) \/ FirstRead(t) \/ While(t) \/ Read(t)
    \/ Trigger(t) \/ Record(t) \/ Refresh(t) \/ Overlay(t)
    \/ ReleaseWriter(t) \/ FinallyCamera(t) \/ FinallyFlag(t)

Next ==
    \/ Tick
    \/ InvokeStart \/ Start \/ StartThread \/ StartReturn
    \/ InvokeStop \/ Stop \/ StopCheck \/ StopRelease \/ StopNone \/ StopReturn
    \/ StartSecurityMonitoring \/ StopSecurityMonitoring
    \/ \E t \in Threads : Open(t)
    \/ \E t \in Threads : IsOpened(t)
    \/ \E t \in Threads : FirstRead(t)
    \/ \E t \in Threads : While(t)
    \/ \E t \in Threads : Read(t)
    \/ \E t \in Threads : Trigger(t)
    \/ \E t \in Threads : Record(t)
    \/ \E t \in Threads : Refresh(t)
    \/ \E t \in Threads : Overlay(t)
    \/ \E t \in Threads : ReleaseWriter(t)
    \/ \E t \in Threads : FinallyCamera(t)
    \/ \E t \in Threads : FinallyFlag(t)

Spec == Init /\ [][Next]_vars

\* ----- the detection on its own, lines 131-146
\* Frame deltas with nothing, a faint change or a strong change at the left
\* edge, the middle and the right edge of the middle row; sensitivities
\* below the faint change, between the two, and at the strong one; min_area
\* below, at and above the area of a region grown from one pixel.
DeltaLevels == {0, 25, 200}
Deltas ==
    {[p \in Pixels |->
         CASE p = <<2, 1>> -> a
           [] p = <<2, 4>> -> b
           [] p = <<2, GridW>> -> c
           [] OTHER -> 0] :
        a \in DeltaLevels, b \in DeltaLevels, c \in DeltaLevels}
SensitivitiesTried == {20, 30, 200}
MinAreasTried == {1, 4, 5}

\* a monitor that is constructed and never started, and a frame delta
DetectInit ==
    /\ scene = {} /\ launches = 0 /\ horizon = StartNow /\ surface = "methods"
    /\ record_seconds \in RecordSecondsSet
    /\ sensitivity \in SensitivitySet
    /\ min_area \in MinAreasTried
    /\ Constructed
    /\ frame_delta \in Deltas
    /\ regions = NoRegions

\* lines 131-146 with self.sensitivity = s
CountRegions(s) ==
    /\ s \notin DOMAIN regions
    /\ regions' = [x \in DOMAIN regions \cup {s} |->
                      IF x = s THEN DeltaRegions(frame_delta, s, min_area)
                      ELSE regions[x]]
    /\ UNCHANGED <<config, globals, frame_delta, object, caller, camState,
                   now, pc, locals, effects>>

DetectNext == \E s \in SensitivitiesTried : CountRegions(s)

DetectSpec == DetectInit /\ [][DetectNext]_vars

\* every loop thread keeps being scheduled
LiveSpec == Spec /\ \A t \in Threads : WF_vars(ThreadStep(t))


\* ----- what the claims speak of
Alive(t) == pc[t] \notin {"unborn", "done"}
Sessions(t) == Len(sinks[t])
OpenSinks(t) == {i \in 1..Len(sinks[t]) : sinks[t][i] = "open"}
Steps(t) == pc'[t] # pc[t]
LoopExited == \A t \in Threads : ~Alive(t)

\* C1: within one loop at most one recording session is active at any time,
\* and a frame with motion that arrives while a session is active creates no
\* sink, writes no screenshot and leaves the session's start time alone.
C1_OneSessionAtATime ==
    /\ [](\A t \in Threads :
            /\ Cardinality(OpenSinks(t)) <= 1
            /\ (is_recording[t] /\ pc[t] \in {"trigger", "record", "refresh",
                                               "overlay", "while", "read"})
               => OpenSinks(t) = {video_writer[t]})
    /\ [][\A t \in Threads :
            (pc[t] = "trigger" /\ Steps(t) /\ is_recording[t]
                /\ motion_detected[t])
            => /\ sinks'[t] = sinks[t]
               /\ screenshots'[t] = screenshots[t]
               /\ video_writer'[t] = video_writer[t]
               /\ record_start_time'[t] = record_start_time[t]
               /\ is_recording'[t]]_vars

\* a frame with motion has arrived while a session is active
C1_Witness ==
    \E t \in Threads :
        pc[t] = "trigger" /\ is_recording[t] /\ motion_detected[t]

\* C2: motion seen while Idle creates exactly one session and emits exactly
\* one notification; the notifications issued always equal the sessions
\* created, and none is issued again for the same session.
C2_OneNotificationPerSession ==
    /\ [](\A t \in Threads : notified[t] = Sessions(t))
    /\ [][\A t \in Threads :
            /\ (pc[t] = "trigger" /\ Steps(t) /\ ~is_recording[t]
                    /\ motion_detected[t])
               => /\ Sessions(t)' = Sessions(t) + 1
                  /\ notified'[t] = notified[t] + 1
                  /\ is_recording'[t]
            /\ notified'[t] # notified[t]
               => /\ pc[t] = "trigger" /\ ~is_recording[t] /\ motion_detected[t]
                  /\ notified'[t] = notified[t] + 1]_vars

\* a second session has been created and notified after the first closed
C2_Witness ==
    \E t \in Threads :
        /\ Sessions(t) = 2 /\ notified[t] = 2 /\ is_recording[t]
        /\ record_seconds = 1

\* C3, as the spec states it: at the duration check the session is closed
\* exactly when elapsed >= record_seconds.
C3_ClosedAtElapsedGeq ==
    [][\A t \in Threads :
        (pc[t] = "record" /\ Steps(t) /\ is_recording[t])
        => (~is_recording'[t] <=> now - record_start_time[t] >= record_seconds)]_vars

\* C3, amended: at the duration check that follows the append, the session
\* is closed (sink finalized, back to Idle) exactly when elapsed is strictly
\* greater than record_seconds, whatever the frame showed; the only other
\* place a sink is finalized is the loop's exit.
C3_ClosedWhenElapsedExceeds ==
    [][\A t \in Threads :
        /\ (pc[t] = "record" /\ Steps(t) /\ is_recording[t])
           => /\ ~is_recording'[t] <=> now - record_start_time[t] > record_seconds
              /\ ~is_recording'[t]
                 => /\ sinks'[t] = [sinks[t] EXCEPT ![video_writer[t]] = "released"]
                    /\ video_writer'[t] = None
              /\ is_recording'[t] => sinks'[t] = sinks[t]
        /\ (OpenSinks(t)' # OpenSinks(t) /\ OpenSinks(t)' = {})
           => pc[t] \in {"record", "release_writer"}
        /\ (is_recording[t] /\ ~is_recording'[t])
           => pc[t] \in {"record", "finally_flag"}]_vars

\* a session has just been closed by the duration check
C3_Witness ==
    \E t \in Threads :
        /\ pc[t] = "refresh" /\ ~is_recording[t]
        /\ Sessions(t) = 1 /\ sinks[t][1] = "released"
        /\ record_seconds = 2 /\ now = StartNow + 3

\* C4: as long as no frame has shown a contour of min_area or more, the
\* loop is Idle and has created no session, written no screenshot, appended
\* no frame and sent no notification.
C4_NoMotionStaysIdle ==
    \A t \in Threads :
        seen[t] # "motion"
        => /\ ~is_recording[t]
           /\ video_writer[t] = None
           /\ sinks[t] = <<>>
           /\ screenshots[t] = 0
           /\ appended[t] = 0
           /\ notified[t] = 0

\* frames have been processed, one of them with a change below min_area
C4_Witness ==
    \E t \in Threads :
        pc[t] = "overlay" /\ seen[t] = "submin" /\ now > StartNow


\* C5: start() on a monitor whose run-flag is set returns "already running",
\* creates no thread and changes nothing; otherwise it sets the run-flag and
\* starts exactly one new loop thread.
C5_StartIdempotent ==
    /\ [][(cpc = "start" /\ cpc' # "start")
          => IF is_running
             THEN /\ lastResult' = "already running"
                  /\ cpc' = "idle"
                  /\ UNCHANGED <<is_running, camera, monitor_thread, camState,
                                 nthreads, pc>>
             ELSE /\ is_running'
                  /\ cpc' = "start_thread"
                  /\ UNCHANGED <<camera, monitor_thread, nthreads, pc>>]_vars
    /\ [][(cpc = "start_thread" /\ cpc' # "start_thread")
          => /\ nthreads' = nthreads + 1
             /\ monitor_thread' = nthreads'
             /\ pc[monitor_thread'] = "unborn"
             /\ pc' = [pc EXCEPT ![monitor_thread'] = "open"]
             /\ UNCHANGED <<is_running, camera>>]_vars

\* start() has answered "already running" with one loop thread launched
C5_Witness ==
    lastResult = "already running" /\ nthreads = 1 /\ Alive(1)

\* C6: at most one loop thread of the monitor is alive at any time.
C6_SingleLoopThread ==
    Cardinality({t \in Threads : Alive(t)}) <= 1

\* C7: stop() on a monitor whose run-flag is clear returns "not running" and
\* changes nothing: run-flag, camera, thread and capture device are as before.
C7_StopIdempotent ==
    [][(cpc = "stop" /\ cpc' # "stop" /\ ~is_running)
       => /\ lastResult' = "not running"
          /\ cpc' = "idle"
          /\ UNCHANGED <<is_running, camera, monitor_thread, camState,
                         nthreads, pc>>]_vars

\* stop() has answered "not running" after a loop ended by itself and left
\* its camera handle in the field
C7_Witness ==
    lastResult = "not running" /\ camera # None /\ nthreads = 1

\* C8: once stop() has returned "stopped", the loop has stopped: no loop
\* thread is left that could read, record, notify or refresh.
C8_StopBlocksUntilLoopStopped ==
    lastResult = "stopped" => \A t \in Threads : ~Alive(t)

\* C9: once stop() has cleared the run-flag of a running monitor, every loop
\* thread exits and the run-flag is clear, unless start() is invoked first;
\* a loop that finds the flag clear at its iteration boundary leaves the
\* loop there; and nothing but start() ever sets the run-flag.
C9_EventualCancellation ==
    /\ (cpc = "stop_check") ~> (cpc = "start" \/ (LoopExited /\ ~is_running))
    /\ [][\A t \in Threads :
            (pc[t] = "while" /\ Steps(t) /\ ~is_running)
            => pc'[t] = "release_writer"]_vars
    /\ [][(~is_running /\ is_running') => cpc = "start"]_vars

\* stop() has returned from a running monitor and the loop has exited
C9_Witness ==
    /\ lastResult = "stopped"
    /\ LoopExited /\ ~is_running
    /\ \E t \in Threads : pc[t] = "done" /\ camState[t] = "released"

\* C10: a capture device that cannot be opened is reported to the caller of
\* start(): that call does not answer that monitoring was started.
C10_OpenFailureSurfaced ==
    \A t \in Threads : camState[t] = "failed" => startResult[t] # "started"

\* C11: a failed read, the first one or one inside the loop, is fatal and
\* not retried: from then on the loop thread reads no frame, creates no
\* session, writes no screenshot, notifies nobody and appends nothing; when
\* it leaves the finally clause's release (line 202), the last release on
\* its path, the capture it opened is released, and its last step leaves
\* the run-flag clear.
C11_ReadFailureFatal ==
    [][\A t \in Threads :
        /\ failed_read[t]
           => /\ pc'[t] \in {"release_writer", "finally", "finally_flag"}
              /\ Sessions(t)' = Sessions(t)
              /\ screenshots'[t] = screenshots[t]
              /\ notified'[t] = notified[t]
              /\ appended'[t] = appended[t]
              /\ pc'[t] = "finally_flag" => camState'[t] # "open"
        /\ pc[t] = "finally_flag" /\ pc'[t] = "done" => ~is_running']_vars

\* C12, as the spec states it: on motion seen while Idle, however the
\* screenshot write and the notification send end, the session is created,
\* the frame is appended, and the iteration ends in Recording.
C12_EndsIterationRecording ==
    /\ [][\A t \in Threads :
            (pc[t] = "trigger" /\ Steps(t) /\ motion_detected[t]
                /\ ~is_recording[t])
            => /\ is_recording'[t] /\ Sessions(t)' = Sessions(t) + 1
               /\ pc'[t] = "record"]_vars
    /\ [](\A t \in Threads :
            (shot[t] # "none" /\ pc[t] = "overlay")
            => is_recording[t] /\ appended[t] = 1)

\* C12, amended: on motion seen while Idle, whether the screenshot write
\* fails or succeeds and whether the notification send fails or succeeds,
\* the session is created (a sink opened, the start time taken, Recording),
\* the frame is appended to it in the same iteration and the loop goes on to
\* its next frame; the iteration ends in Recording unless the duration check
\* that follows the append already finds elapsed > record_seconds, and then
\* the session is closed in the iteration that created it.
C12_FailuresNeverReachStateMachine ==
    /\ [][\A t \in Threads :
            (pc[t] = "trigger" /\ Steps(t) /\ motion_detected[t]
                /\ ~is_recording[t])
            => /\ shot'[t] \in {"ok", "failed"} /\ sent'[t] \in {"ok", "failed"}
               /\ is_recording'[t] /\ Sessions(t)' = Sessions(t) + 1
               /\ video_writer'[t] = Sessions(t)'
               /\ sinks'[t][video_writer'[t]] = "open"
               /\ record_start_time'[t] = now
               /\ pc'[t] = "record"]_vars
    /\ [][\A t \in Threads :
            (shot[t] # "none" /\ Steps(t))
            => /\ pc[t] = "record"
                  => /\ pc'[t] = "refresh" /\ appended'[t] = 1
                     /\ is_recording'[t]
                        <=> ~(now - record_start_time[t] > record_seconds)
               /\ pc[t] = "refresh" => pc'[t] = "overlay"
               /\ pc[t] = "overlay" => pc'[t] = "while"]_vars
    /\ [](\A t \in Threads :
            shot[t] # "none"
            => /\ pc[t] \in {"record", "refresh", "overlay"}
               /\ sent[t] # "none"
               /\ pc[t] # "record" => appended[t] = 1)

\* a session was created and its frame appended although the screenshot
\* write and the notification send both failed
C12_Witness ==
    \E t \in Threads :
        /\ shot[t] = "failed" /\ sent[t] = "failed"
        /\ pc[t] = "overlay" /\ is_recording[t] /\ appended[t] = 1
        /\ OpenSinks(t) = {video_writer[t]}

\* C13: once start_security_monitoring() has started a monitor, a call of
\* stop_security_monitoring() enters stop() of that monitor, after which its
\* run-flag is clear and its loop has exited; stop_security_monitoring()
\* answers that monitoring was not started only when no monitor was started.
C13_StopReachesRunningLoop ==
    /\ [](lastResult = "was not started" => nthreads = 0)
    /\ [][(surface = "module" /\ cpc = "idle" /\ nthreads > 0
            /\ lastResult' # lastResult)
          => cpc' = "stop"]_vars
    /\ (surface = "module" /\ nthreads > 0
            /\ lastResult \in {"stopped", "not running", "was not started"})
       ~> (~is_running /\ LoopExited)

\* C14: every iteration that has processed a frame, Idle or Recording,
\* reaches the refresh step; there the reference frame is replaced by the
\* current smoothed frame if and only if now mod 30 < 1, and nothing else
\* changes: the Idle/Recording flag, the sink, the sinks' state and the
\* session's start time stay as they were.  No other step changes the
\* reference frame once the first read has captured it.
C14_RefreshDecoupled ==
    /\ [][\A t \in Threads :
            /\ (pc[t] = "trigger" /\ Steps(t)) => pc'[t] = "record"
            /\ (pc[t] = "record" /\ Steps(t)) => pc'[t] = "refresh"
            /\ (pc[t] = "refresh" /\ Steps(t))
               => /\ gray_first_frame'[t] =
                        IF now % RefreshPeriod < 1
                        THEN gray_frame[t] ELSE gray_first_frame[t]
                  /\ is_recording'[t] = is_recording[t]
                  /\ video_writer'[t] = video_writer[t]
                  /\ record_start_time'[t] = record_start_time[t]
                  /\ sinks'[t] = sinks[t]
                  /\ pc'[t] = "overlay"
            /\ (gray_first_frame'[t] # gray_first_frame[t]
                    /\ pc[t] # "first_read" /\ pc'[t] # "done")
               => pc[t] = "refresh" /\ now % RefreshPeriod < 1]_vars

\* a frame with motion has become the reference frame during a session
C14_Witness ==
    \E t \in Threads :
        /\ pc[t] = "overlay" /\ now % RefreshPeriod < 1
        /\ is_recording[t] /\ motion_detected[t]
        /\ gray_first_frame[t] = gray_frame[t]

\* C15, as the spec states it: for a fixed frame delta and min_area and any
\* sensitivities s1 <= s2, no more motion regions are found with s2 than
\* with s1.
C15_RegionCountMonotonic ==
    \A s1 \in DOMAIN regions, s2 \in DOMAIN regions :
        s1 <= s2 => Cardinality(regions[s2]) <= Cardinality(regions[s1])

\* C15, amended: for a fixed frame delta and min_area and any sensitivities
\* s1 <= s2, every motion region found with s2 lies inside a motion region
\* found with s1, so motion detected with s2 is detected with s1; the
\* number of regions may go either way.
C15_RegionsShrinkWithSensitivity ==
    \A s1 \in DOMAIN regions, s2 \in DOMAIN regions :
        s1 <= s2
        => /\ \A C2 \in regions[s2] : \E C1 \in regions[s1] : C2 \subseteq C1
           /\ regions[s2] # {} => regions[s1] # {}

\* a faint bridge between two strong changes: one region with the lower
\* sensitivity value, two with the higher
C15_Witness ==
    /\ DOMAIN regions = SensitivitiesTried
    /\ Cardinality(regions[20]) = 1
    /\ Cardinality(regions[30]) = 2
    /\ regions[200] = {}

\* C16: a frame processed while a session is active is appended exactly
\* once, to the open sink of that session, whether or not it shows motion:
\* the frame that started the session and the frame on which the duration
\* expires are appended too.  Nothing is appended while Idle, and a write
\* only ever goes to a sink that is held and not finalized.
C16_AppendedExactlyOnce ==
    /\ [](\A t \in Threads :
            /\ appended[t] <= 1
            /\ pc[t] \in {"trigger", "record"} => appended[t] = 0
            /\ (pc[t] \in {"refresh", "overlay"}
                    /\ (is_recording[t] \/ shot[t] # "none"))
               => appended[t] = 1)
    /\ [][\A t \in Threads :
            /\ (pc[t] = "record" /\ Steps(t))
               => appended'[t] = appended[t] + (IF is_recording[t] THEN 1 ELSE 0)
            /\ appended'[t] > appended[t]
               => /\ pc[t] = "record" /\ is_recording[t]
                  /\ video_writer[t] # None
                  /\ sinks[t][video_writer[t]] = "open"]_vars

\* a frame without motion, on which the session's duration expired, has
\* been appended before the sink was finalized
C16_Witness ==
    \E t \in Threads :
        /\ pc[t] = "refresh" /\ appended[t] = 1
        /\ ~motion_detected[t] /\ ~is_recording[t]
        /\ sinks[t] = <<"released">>

C18_NothingLeftOpenAtExit ==
    \A t \in Threads :
        pc[t] = "done" => OpenSinks(t) = {} /\ camState[t] # "open"

=============================================================================
